---- MODULE Spec2Model ----
(***************************************************************************)
(* A model of the XMLTV server of src/index.ts: the Bun.serve fetch        *)
(* handler (lines 15-45), generateXml (lines 55-200) and chunk (lines      *)
(* 208-214).  Every request owns the locals of its generateXml call, so    *)
(* the request state is a function of the request.  Time is counted in     *)
(* minutes since the Unix epoch: the only clock reads that reach the       *)
(* upstream are floored to a UTC day and shifted by whole minutes.         *)
(***************************************************************************)
EXTENDS Integers, Sequences, FiniteSets, TLC

VARIABLES
  days,        \* the configured day count (const days, line 7)
  clock,       \* the wall clock, DateTime.now() / Date.now(), in minutes
  faults,      \* upstream responses so far that were not a 200 with the documented shape
  path,        \* url.pathname of each request
  pc,          \* where each request's flow stands
  reqStart,    \* startTime of the fetch handler (line 16)
  doc,         \* xml: the children of <tv> appended so far
  lineupReq,   \* the lineup GET: "none", "inflight" or "settled"
  lineupGot,   \* the outcome the lineup GET settled with
  lineupData,  \* lineupData (line 73)
  allChannels, \* allChannels (line 81)
  channelMap,  \* channelMap (line 82)
  day,         \* the loop variable of line 103
  windows,     \* the day windows computed so far (lines 105-109), in order
  batches,     \* per dispatched day, the promises of line 113
  order,       \* the order in which the promises of the last day begun settled
  listingData, \* listingData (line 119) of the last day fetched
  xmlString,   \* xmlString (line 181)
  serialized,  \* how many times xml.end ran
  response,    \* the Response handed back to the client
  late,        \* how many promises settled after the response was sent
  fnPc,        \* harness of the pure functions: which one is applied
  fnIn,        \* its input
  fnOut        \* its output

vars == <<days, clock, faults, path, pc, reqStart, doc, lineupReq, lineupGot,
          lineupData, allChannels, channelMap, day, windows, batches, order,
          listingData, xmlString, serialized, response, late, fnPc, fnIn, fnOut>>

reqVars == <<path, pc, reqStart, doc, lineupReq, lineupGot, lineupData,
             allChannels, channelMap, day, windows, batches, order,
             listingData, xmlString, serialized, response, late>>

fnVars == <<fnPc, fnIn, fnOut>>

(***************************************************************************)
(* Program constants and the bounds of the model.                          *)
(***************************************************************************)
BatchSize == 20
DayClamp == 8
MinutesPerDay == 24 * 60
WindowStartMinutes == 4 * 60
WindowEndMinutes == 3 * 60 + 59

MaxDays == 2
MaxFaults == 1
MaxTicks == 1
MaxProgs == 2
MaxChunkLen == 45
MaxChunkSize == 3

lineUpID == "USA-OTA84321"

Reqs == {"r1", "r2"}

Min(a, b) == IF a < b THEN a ELSE b

\* 2024-03-01T00:00:00Z: 19783 days after the epoch
RefNow == 19783 * MinutesPerDay

\* a request arrives in the last minute of a UTC day: the clock may or may not
\* pass midnight while it is served
StartClocks == {RefNow + MinutesPerDay - 1}

Clocks == UNION {c .. (c + MaxTicks) : c \in StartClocks}

LineupSizes == {0, 1, BatchSize, BatchSize + 1, 2 * BatchSize + 1}

MaxLineup == 2 * BatchSize + 1

(***************************************************************************)
(* JSON values as the code tells them apart: a body that does not parse,   *)
(* a non-array value (an object, null), an array with its items.  Bodies   *)
(* that are a JSON string or number are not explored.                      *)
(***************************************************************************)
NonJson == [type |-> "nonjson", items |-> <<>>]
JsonObject == [type |-> "object", items |-> <<>>]
JsonNull == [type |-> "null", items |-> <<>>]
JsonArray(xs) == [type |-> "array", items |-> xs]

NetErr == [kind |-> "neterr", status |-> 0, body |-> NonJson, shape |-> "neterr"]
Http(st, b, sh) == [kind |-> "http", status |-> st, body |-> b, shape |-> sh]

NoOutcome == [kind |-> "none", status |-> 0, body |-> NonJson, shape |-> "none"]

(***************************************************************************)
(* chunk (lines 208-214): slices of `size` items from index 0 on.          *)
(***************************************************************************)
RECURSIVE chunkFrom(_, _, _)
chunkFrom(array, size, i) ==
  IF i < Len(array)
    THEN <<SubSeq(array, i + 1, Min(i + size, Len(array)))>>
           \o chunkFrom(array, size, i + size)
    ELSE <<>>

\* the loop started at index 1
chunk_FromOne(array, size) == chunkFrom(array, size, 1)

chunk(array, size) == chunkFrom(array, size, 0)

(***************************************************************************)
(* Array.prototype.flat (line 119): one level; an item that is an array is *)
(* replaced by its items, any other item is kept as one slot.              *)
(***************************************************************************)
RECURSIVE Flat(_)
Flat(xs) ==
  IF xs = <<>> THEN <<>>
  ELSE (IF Head(xs).type = "array" THEN Head(xs).items ELSE <<Head(xs)>>)
         \o Flat(Tail(xs))

(***************************************************************************)
(* The day window (lines 105-109): startOf('day') in UTC floors the        *)
(* instant to a multiple of a day.                                         *)
(***************************************************************************)
StartOfDay(now) == now - (now % MinutesPerDay)

\* the window closed where the next one opens
Window_EndAtFour(now, d) ==
  [day   |-> d,
   now   |-> now,
   start |-> StartOfDay(now) + d * MinutesPerDay + WindowStartMinutes,
   end   |-> StartOfDay(now) + (d + 1) * MinutesPerDay + WindowStartMinutes]

Window(now, d) ==
  [day   |-> d,
   now   |-> now,
   start |-> StartOfDay(now) + d * MinutesPerDay + WindowStartMinutes,
   end   |-> StartOfDay(now) + (d + 1) * MinutesPerDay + WindowEndMinutes]

(***************************************************************************)
(* toISO (lines 108-109): the civil UTC date and time of an instant.       *)
(***************************************************************************)
CivilFromDays(z) ==
  LET zz  == z + 719468
      era == zz \div 146097
      doe == zz - era * 146097
      yoe == (doe - doe \div 1460 + doe \div 36524 - doe \div 146096) \div 365
      doy == doe - (365 * yoe + yoe \div 4 - yoe \div 100)
      mp  == (5 * doy + 2) \div 153
      d   == doy - (153 * mp + 2) \div 5 + 1
      m   == IF mp < 10 THEN mp + 3 ELSE mp - 9
      y   == yoe + era * 400 + (IF m <= 2 THEN 1 ELSE 0)
  IN  [year |-> y, month |-> m, day |-> d]

toISO(t) ==
  LET c == CivilFromDays(t \div MinutesPerDay)
  IN  [year |-> c.year, month |-> c.month, day |-> c.day,
       hour |-> (t % MinutesPerDay) \div 60, minute |-> t % 60]

(***************************************************************************)
(* The upstream provider.  Station i of a lineup has the id SID(i); the    *)
(* provider's schedule of a station in a window is fixed, and every        *)
(* program carries the station it was returned for.                        *)
(***************************************************************************)
SID(i) == ToString(100 + i)

LineupChannel(i) ==
  [stationId       |-> SID(i),
   channelNumber   |-> ToString(i) \o ".1",
   stationCallSign |-> "K" \o ToString(i),
   logo            |-> IF i % 2 = 1 THEN "/logo/" \o ToString(i) ELSE ""]

Lineup(n) == [i \in 1..n |-> LineupChannel(i)]

\* a lineup that lists its first station twice
LineupDup == <<LineupChannel(1), LineupChannel(2), LineupChannel(1)>>

LineupBodies == {Lineup(n) : n \in LineupSizes} \cup {LineupDup}

LineupOutcomes ==
  {NetErr}
  \cup {Http(st, b.body, b.shape) :
          st \in {200, 503},
          b \in {[body |-> NonJson, shape |-> "nonjson"],
                 [body |-> JsonObject, shape |-> "object"],
                 [body |-> JsonArray(<<>>), shape |-> "array"]}}
  \cup {Http(200, JsonArray(l), "array") : l \in LineupBodies}

StationIndex == [s \in {SID(i) : i \in 1..MaxLineup} |->
                   CHOOSE i \in 1..MaxLineup : SID(i) = s]

NProgs(s) == StationIndex[s] % (MaxProgs + 1)

Program(s, w, k) ==
  [for |-> s, startTime |-> w.start + 60 * (k - 1), runTime |-> 60]

Schedule(s, w) == JsonArray([k \in 1..NProgs(s) |-> Program(s, w, k)])

Entries(ids, w) == [j \in 1..Len(ids) |-> Schedule(ids[j], w)]

GridOutcomes(ids, w) ==
  {NetErr}
  \cup {Http(st, b.body, b.shape) :
          st \in {200, 503},
          b \in {[body |-> NonJson, shape |-> "nonjson"],
                 [body |-> JsonObject, shape |-> "object"]}}
  \cup {Http(200, JsonArray(Entries(ids, w)), "full"),
        Http(200, JsonArray(<<JsonNull>> \o Tail(Entries(ids, w))), "nullslot"),
        Http(200, JsonArray(Tail(Entries(ids, w))), "short"),
        Http(200, JsonArray(<<Schedule(ids[1], w)>> \o Entries(ids, w)), "long")}

\* the response the upstream contract documents: a 200 with the documented shape
Nominal(out) ==
  out.kind = "http" /\ out.status = 200 /\ out.shape \in {"array", "full"}

(***************************************************************************)
(* The elements generateXml builds.                                        *)
(***************************************************************************)
\* an id that leaves the station out
ChannelId_Prefix(stationId) == "ch"

\* line 86
ChannelId(stationId) == "ch" \o stationId

\* lines 89-99
ChannelEle(channel) ==
  [tag   |-> "channel",
   id    |-> ChannelId(channel.stationId),
   names |-> <<channel.stationCallSign,
               "Channel " \o channel.channelNumber,
               channel.channelNumber>>,
   icon  |-> IF channel.logo # "" THEN "https://www.tvtv.us" \o channel.logo ELSE ""]

\* line 85, over the loop of line 84
StationIds(lineup) == [i \in 1..Len(lineup) |-> lineup[i].stationId]

\* line 87, over the loop of line 84
BuildChannelMap(lineup) ==
  [s \in {lineup[i].stationId : i \in 1..Len(lineup)} |-> ChannelId(s)]

ChannelEles(lineup) == [i \in 1..Len(lineup) |-> ChannelEle(lineup[i])]

\* a programme labelled with the channel number instead of the mapped id
ProgrammeChannel_Number(cmap, channel) == channel.channelNumber

\* line 134: channelMap[channel.stationId] || channel.channelNumber
ProgrammeChannel(cmap, channel) ==
  IF channel.stationId \in DOMAIN cmap /\ cmap[channel.stationId] # ""
    THEN cmap[channel.stationId]
    ELSE channel.channelNumber

\* lines 128-138
ProgrammeEle(program, channelId) ==
  [tag     |-> "programme",
   channel |-> channelId,
   start   |-> program.startTime,
   stop    |-> program.startTime + program.runTime,
   for     |-> program.for]

\* lines 122-177: one pass over the lineup, slot by slot
RECURSIVE EmitFrom(_, _, _, _)
EmitFrom(lineup, cmap, slots, index) ==
  IF index > Len(lineup) THEN <<>>
  ELSE (IF index <= Len(slots) /\ slots[index].type = "array"
          THEN [k \in 1..Len(slots[index].items) |->
                  ProgrammeEle(slots[index].items[k],
                               ProgrammeChannel(cmap, lineup[index]))]
          ELSE <<>>)
         \o EmitFrom(lineup, cmap, slots, index + 1)

\* a pass that ends at the first slot that is no array
EmitProgrammes_StopAtGap(lineup, cmap, slots) ==
  LET gaps == {i \in 1..Len(slots) : slots[i].type # "array"}
      stop == IF gaps = {} THEN Len(slots)
              ELSE (CHOOSE i \in gaps : \A j \in gaps : i <= j) - 1
  IN  EmitFrom(lineup, cmap, SubSeq(slots, 1, stop), 1)

EmitProgrammes(lineup, cmap, slots) == EmitFrom(lineup, cmap, slots, 1)

(***************************************************************************)
(* The children of a <programme> (lines 141-174).  A Program Entry is      *)
(* [title, subtitle, description, hasType, type, hasFlags, flags]: an      *)
(* empty string stands for a text field that is absent or empty (both are  *)
(* falsy), hasType and hasFlags tell an absent field from a present one,   *)
(* and flags is the array of strings of the data model.                    *)
(***************************************************************************)
Element(tag, child, text) == [tag |-> tag, child |-> child, text |-> text]

\* lines 141-151
TextChildren(program) ==
  <<Element("title", "", IF program.title # "" THEN program.title ELSE "No Title")>>
  \o (IF program.subtitle # ""
        THEN <<Element("sub-title", "", program.subtitle)>> ELSE <<>>)
  \o (IF program.description # ""
        THEN <<Element("desc", "", program.description)>> ELSE <<>>)

\* a comparison that ignores the case of the letter
TypeCategory_IgnoreCase(program) ==
  IF program.hasType /\ program.type \in {"M", "m"}
    THEN <<Element("category", "", "movie")>>
  ELSE IF program.hasType /\ program.type \in {"N", "n"}
    THEN <<Element("category", "", "news")>>
  ELSE IF program.hasType /\ program.type \in {"S", "s"}
    THEN <<Element("category", "", "sports")>>
  ELSE <<>>

\* lines 154-160: program.type === 'M' / 'N' / 'S'
TypeCategory(program) ==
  IF program.hasType /\ program.type = "M"
    THEN <<Element("category", "", "movie")>>
  ELSE IF program.hasType /\ program.type = "N"
    THEN <<Element("category", "", "news")>>
  ELSE IF program.hasType /\ program.type = "S"
    THEN <<Element("category", "", "sports")>>
  ELSE <<>>

\* program.flags?.includes(flag): undefined, hence falsy, when flags is
\* absent; Array.prototype.includes compares whole items
includes(program, flag) ==
  program.hasFlags /\ \E i \in 1..Len(program.flags) : program.flags[i] = flag

\* the four tests chained with else
FlagElements_FirstOnly(program) ==
  IF includes(program, "EI") THEN <<Element("category", "", "kids")>>
  ELSE IF includes(program, "HD") THEN <<Element("video", "quality", "HDTV")>>
  ELSE IF includes(program, "Stereo") THEN <<Element("audio", "stereo", "stereo")>>
  ELSE IF includes(program, "New") THEN <<Element("new", "", "")>>
  ELSE <<>>

\* lines 163-174: four tests, one after the other
FlagElements(program) ==
  (IF includes(program, "EI") THEN <<Element("category", "", "kids")>> ELSE <<>>)
  \o (IF includes(program, "HD") THEN <<Element("video", "quality", "HDTV")>> ELSE <<>>)
  \o (IF includes(program, "Stereo")
        THEN <<Element("audio", "stereo", "stereo")>> ELSE <<>>)
  \o (IF includes(program, "New") THEN <<Element("new", "", "")>> ELSE <<>>)

\* lines 141-174
ProgrammeChildren(program) ==
  TextChildren(program) \o TypeCategory(program) \o FlagElements(program)

(***************************************************************************)
(* The promises of one day (lines 113-118).                                *)
(***************************************************************************)
Promise(ids) ==
  [ids |-> ids, st |-> "inflight", status |-> 0, shape |-> "none", val |-> JsonNull,
   gets |-> 1]

\* line 113: chunks.map runs every callback up to its first await
Dispatch(chunks) == [i \in 1..Len(chunks) |-> Promise(chunks[i])]

\* a GET that is issued again when it fails
Settled_Retry(p, out) ==
  IF out.kind = "neterr" \/ out.body.type = "nonjson"
    THEN [p EXCEPT !.gets = p.gets + 1]
    ELSE [p EXCEPT !.st = "fulfilled", !.status = out.status, !.shape = out.shape,
                   !.val = out.body]

\* lines 115-116: the fetch rejects on a network error, json() on a body that
\* does not parse; the status is never read
Settled(p, out) ==
  [p EXCEPT !.st     = IF out.kind = "neterr" \/ out.body.type = "nonjson"
                         THEN "rejected" ELSE "fulfilled",
            !.status = out.status,
            !.shape  = out.shape,
            !.val    = IF out.kind = "neterr" \/ out.body.type = "nonjson"
                         THEN JsonNull ELSE out.body]

\* a join that goes on at the first value
AllFulfilled_Any(ps) == ps = <<>> \/ \E i \in 1..Len(ps) : ps[i].st = "fulfilled"

\* Promise.all (line 118): fulfilled once every promise is, rejected once one is
AllFulfilled(ps) == \A i \in 1..Len(ps) : ps[i].st = "fulfilled"
SomeRejected(ps) == \E i \in 1..Len(ps) : ps[i].st = "rejected"

\* the values gathered as the promises settle
PromiseAll_CompletionOrder(ps, ord) == [k \in 1..Len(ps) |-> ps[ord[k]].val]

\* Promise.all's value: the promises' values by position in the array,
\* whatever the order `ord` they settled in
PromiseAll(ps, ord) == [i \in 1..Len(ps) |-> ps[i].val]

\* the values of a day go with the locals of its iteration
Consumed(ps) == [i \in 1..Len(ps) |-> [ps[i] EXCEPT !.val = JsonNull]]

(***************************************************************************)
(* Responses.                                                              *)
(***************************************************************************)
NoResponse == [status |-> 0, text |-> "", xml |-> <<>>, headers |-> {}, time |-> 0 - 1]

\* lines 191-199, then line 35
XmlResponse(str, duration) ==
  [status  |-> 200, text |-> "", xml |-> str,
   headers |-> {"Content-Type", "Content-Disposition", "Cache-Control", "Pragma",
                "Expires", "X-Response-Time"},
   time    |-> duration]

\* line 28, then line 35
NotFoundResponse(duration) ==
  [status |-> 404, text |-> "Not Found", xml |-> <<>>,
   headers |-> {"X-Response-Time"}, time |-> duration]

\* lines 40-43
ErrorResponse ==
  [status |-> 500, text |-> "Internal Server Error", xml |-> <<>>,
   headers |-> {"Content-Type"}, time |-> 0 - 1]

Paths == {"/xmltv", "/"}

\* the configured values explored: the small ones, the one of line 7 and one
\* beyond the clamp of line 103
DaysChoices == (0..MaxDays) \cup {DayClamp, DayClamp + 1}

\* both requests of Reqs were received
TwoRequests == \A q \in Reqs : pc[q] # "NONE"

\* the runs over more than MaxDays days, and those of a lineup of more than two
\* batches, are explored with a conforming upstream
FaultBudget(r) ==
  IF days <= MaxDays /\ Len(lineupData[r]) <= BatchSize + 1
    THEN (IF TwoRequests THEN Min(MaxFaults, 1) ELSE MaxFaults)
    ELSE 0

\* two requests in progress are explored with lineups of one and of two batches
InScope(out) == TwoRequests => Len(out.body.items) \in {1, BatchSize + 1}

\* a loop that runs to the configured value
DayCount_Unclamped == days

\* line 103: Math.min(days, 8)
DayCount == Min(days, DayClamp)

(***************************************************************************)
(* The initial states: the requests of `active` have arrived.              *)
(***************************************************************************)
InitWith(active) ==
  /\ days \in DaysChoices
  /\ clock \in StartClocks
  /\ faults = 0
  /\ path \in [Reqs -> Paths]
  /\ \A r \in Reqs \ active : path[r] = "/"
  /\ pc = [r \in Reqs |-> IF r \in active THEN "START" ELSE "NONE"]
  /\ reqStart = [r \in Reqs |-> 0]
  /\ doc = [r \in Reqs |-> <<>>]
  /\ lineupReq = [r \in Reqs |-> "none"]
  /\ lineupGot = [r \in Reqs |-> NoOutcome]
  /\ lineupData = [r \in Reqs |-> <<>>]
  /\ allChannels = [r \in Reqs |-> <<>>]
  /\ channelMap = [r \in Reqs |-> <<>>]
  /\ day = [r \in Reqs |-> 0]
  /\ windows = [r \in Reqs |-> <<>>]
  /\ batches = [r \in Reqs |-> <<>>]
  /\ order = [r \in Reqs |-> <<>>]
  /\ listingData = [r \in Reqs |-> <<>>]
  /\ xmlString = [r \in Reqs |-> <<>>]
  /\ serialized = [r \in Reqs |-> 0]
  /\ response = [r \in Reqs |-> NoResponse]
  /\ late = [r \in Reqs |-> 0]
  /\ fnPc = "off"
  /\ fnIn = <<>>
  /\ fnOut = <<>>

Init == InitWith({"r1"})

(***************************************************************************)
(* The fetch handler and generateXml, one action per stretch of code       *)
(* between two awaits.                                                     *)
(***************************************************************************)
\* an error swallowed: the flow goes on to serialize what it has
Throw_Swallowed(r) ==
  /\ response' = response
  /\ pc' = [pc EXCEPT ![r] = "SERIALIZED"]

\* lines 38-43: whatever generateXml throws ends the request with a 500
Throw(r) ==
  /\ response' = [response EXCEPT ![r] = ErrorResponse]
  /\ pc' = [pc EXCEPT ![r] = "RESPONDED"]

\* lines 16-26 and 57-72: the request enters generateXml, which creates the
\* document and issues the lineup GET
XmltvRequest(r) ==
  /\ pc[r] = "START"
  /\ path[r] = "/xmltv"
  /\ reqStart' = [reqStart EXCEPT ![r] = clock]
  /\ doc' = [doc EXCEPT ![r] = <<>>]
  /\ lineupReq' = [lineupReq EXCEPT ![r] = "inflight"]
  /\ pc' = [pc EXCEPT ![r] = "LINEUP_WAIT"]
  /\ UNCHANGED <<days, clock, faults, path, lineupGot, lineupData, allChannels,
                 channelMap, day, windows, batches, order, listingData, xmlString, serialized,
                 response, late,
                 fnVars>>

\* lines 27-37: any other path
NotFound(r) ==
  /\ pc[r] = "START"
  /\ path[r] # "/xmltv"
  /\ reqStart' = [reqStart EXCEPT ![r] = clock]
  /\ response' = [response EXCEPT ![r] = NotFoundResponse(0)]
  /\ pc' = [pc EXCEPT ![r] = "RESPONDED"]
  /\ UNCHANGED <<days, clock, faults, path, doc, lineupReq, lineupGot, lineupData,
                 allChannels, channelMap, day, windows, batches, order, listingData, xmlString,
                 serialized, late,
                 fnVars>>

\* lines 72-84: the lineup GET rejects, its body does not parse, or the value
\* parsed is not iterable
LineupFails(r) ==
  /\ pc[r] = "LINEUP_WAIT"
  /\ \E out \in LineupOutcomes :
       /\ Nominal(out) \/ faults < FaultBudget(r)
       /\ out.kind = "neterr" \/ out.body.type # "array"
       /\ faults' = IF Nominal(out) THEN faults ELSE faults + 1
       /\ lineupGot' = [lineupGot EXCEPT ![r] = out]
  /\ lineupReq' = [lineupReq EXCEPT ![r] = "settled"]
  /\ Throw(r)
  /\ UNCHANGED <<days, clock, path, reqStart, doc, lineupData, allChannels,
                 channelMap, day, windows, batches, order, listingData, xmlString, serialized,
                 late,
                 fnVars>>

\* lines 72-100: the lineup parsed to an array; the channel list, the channel
\* map and the <channel> elements are built
LineupFetched(r) ==
  /\ pc[r] = "LINEUP_WAIT"
  /\ \E out \in LineupOutcomes :
       /\ Nominal(out) \/ faults < FaultBudget(r)
       /\ out.kind = "http" /\ out.body.type = "array"
       /\ InScope(out)
       /\ faults' = IF Nominal(out) THEN faults ELSE faults + 1
       /\ lineupGot' = [lineupGot EXCEPT ![r] = out]
       /\ lineupData' = [lineupData EXCEPT ![r] = out.body.items]
       /\ allChannels' = [allChannels EXCEPT ![r] = StationIds(out.body.items)]
       /\ channelMap' = [channelMap EXCEPT ![r] = BuildChannelMap(out.body.items)]
       /\ doc' = [doc EXCEPT ![r] = doc[r] \o ChannelEles(out.body.items)]
  /\ lineupReq' = [lineupReq EXCEPT ![r] = "settled"]
  /\ day' = [day EXCEPT ![r] = 0]
  /\ pc' = [pc EXCEPT ![r] = "LINEUP_FETCHED"]
  /\ UNCHANGED <<days, clock, path, reqStart, windows, batches, order, listingData, xmlString,
                 serialized, response, late,
                 fnVars>>

\* the loop condition of line 103
MoreDays(r) == day[r] < DayCount

\* lines 103-118: the window of the day is computed from the clock, every
\* batch GET is issued, and the flow awaits Promise.all
BeginDay(r) ==
  /\ pc[r] \in {"LINEUP_FETCHED", "DAY_FETCHED"}
  /\ MoreDays(r)
  /\ windows' = [windows EXCEPT ![r] = Append(windows[r], Window(clock, day[r]))]
  /\ batches' = [batches EXCEPT ![r] =
                   Append([d \in 1..Len(batches[r]) |-> Consumed(batches[r][d])],
                          Dispatch(chunk(allChannels[r], BatchSize)))]
  /\ order' = [order EXCEPT ![r] = <<>>]
  /\ pc' = [pc EXCEPT ![r] = "DAY_WAIT"]
  /\ UNCHANGED <<days, clock, faults, path, reqStart, doc, lineupReq, lineupGot,
                 lineupData, allChannels, channelMap, day, listingData, xmlString, serialized,
                 response, late,
                 fnVars>>

\* each batch appending its programmes as it arrives
BatchSettles_LateAppend(r) ==
  /\ \E d \in 1..Len(batches[r]) : \E i \in 1..Len(batches[r][d]) :
       /\ batches[r][d][i].st = "inflight"
       /\ \E out \in GridOutcomes(batches[r][d][i].ids, windows[r][d]) :
            /\ Nominal(out) \/ faults < FaultBudget(r)
            /\ faults' = IF Nominal(out) THEN faults ELSE faults + 1
            /\ batches' = [batches EXCEPT ![r][d][i] = Settled(batches[r][d][i], out)]
            /\ doc' = [doc EXCEPT ![r] =
                         IF pc[r] = "RESPONDED"
                           THEN doc[r] \o EmitProgrammes(
                                  lineupData[r], channelMap[r],
                                  Flat(<<Settled(batches[r][d][i], out).val>>))
                           ELSE doc[r]]
       /\ order' = [order EXCEPT ![r] = Append(order[r], i)]
  /\ late' = [late EXCEPT ![r] = IF pc[r] = "RESPONDED" THEN late[r] + 1 ELSE late[r]]
  /\ UNCHANGED <<days, clock, path, pc, reqStart, lineupReq, lineupGot,
                 lineupData, allChannels, channelMap, day, windows, listingData, xmlString,
                 serialized, response, fnVars>>

\* lines 115-116: one batch GET settles, at any time after it was issued
BatchSettles(r) ==
  /\ \E d \in 1..Len(batches[r]) : \E i \in 1..Len(batches[r][d]) :
       /\ batches[r][d][i].st = "inflight"
       /\ \E out \in GridOutcomes(batches[r][d][i].ids, windows[r][d]) :
            /\ Nominal(out) \/ faults < FaultBudget(r)
            /\ faults' = IF Nominal(out) THEN faults ELSE faults + 1
            /\ batches' = [batches EXCEPT ![r][d][i] = Settled(batches[r][d][i], out)]
       /\ order' = [order EXCEPT ![r] = Append(order[r], i)]
  /\ late' = [late EXCEPT ![r] = IF pc[r] = "RESPONDED" THEN late[r] + 1 ELSE late[r]]
  /\ UNCHANGED <<days, clock, path, pc, reqStart, doc, lineupReq, lineupGot,
                 lineupData, allChannels, channelMap, day, windows, listingData, xmlString,
                 serialized, response, fnVars>>

\* the promises of the day being awaited
Current(r) == batches[r][Len(batches[r])]

\* the document kept in one variable of the module, which every request in
\* progress appends to
DayFetched_SharedDoc(r) ==
  /\ pc[r] = "DAY_WAIT"
  /\ AllFulfilled(Current(r))
  /\ LET listings == PromiseAll(Current(r), order[r])
     IN  /\ listingData' = [listingData EXCEPT ![r] = Flat(listings)]
         /\ doc' = [q \in Reqs |->
                      doc[q] \o EmitProgrammes(lineupData[r], channelMap[r],
                                               Flat(listings))]
  /\ day' = [day EXCEPT ![r] = day[r] + 1]
  /\ pc' = [pc EXCEPT ![r] = "DAY_FETCHED"]
  /\ UNCHANGED <<days, clock, faults, path, reqStart, lineupReq, lineupGot,
                 lineupData, allChannels, channelMap, windows, batches, order,
                 xmlString, serialized, response, late,
                 fnVars>>

\* lines 118-177: Promise.all fulfils; the listings are flattened and the
\* programmes of the day appended
DayFetched(r) ==
  /\ pc[r] = "DAY_WAIT"
  /\ AllFulfilled(Current(r))
  /\ LET listings == PromiseAll(Current(r), order[r])
     IN  /\ listingData' = [listingData EXCEPT ![r] = Flat(listings)]
         /\ doc' = [doc EXCEPT ![r] =
                      doc[r] \o EmitProgrammes(lineupData[r], channelMap[r],
                                               Flat(listings))]
  /\ day' = [day EXCEPT ![r] = day[r] + 1]
  /\ pc' = [pc EXCEPT ![r] = "DAY_FETCHED"]
  /\ UNCHANGED <<days, clock, faults, path, reqStart, lineupReq, lineupGot,
                 lineupData, allChannels, channelMap, windows, batches, order,
                 xmlString, serialized, response, late,
                 fnVars>>

\* line 118: Promise.all rejects as soon as one promise does
DayFails(r) ==
  /\ pc[r] = "DAY_WAIT"
  /\ SomeRejected(Current(r))
  /\ Throw(r)
  /\ UNCHANGED <<days, clock, faults, path, reqStart, doc, lineupReq, lineupGot,
                 lineupData, allChannels, channelMap, day, windows, batches, order,
                 listingData, xmlString, serialized, late,
                 fnVars>>

\* lines 181-186: after the last day the document is serialized
Serialize(r) ==
  /\ pc[r] \in {"LINEUP_FETCHED", "DAY_FETCHED"}
  /\ ~MoreDays(r)
  /\ xmlString' = [xmlString EXCEPT ![r] = doc[r]]
  /\ serialized' = [serialized EXCEPT ![r] = serialized[r] + 1]
  /\ pc' = [pc EXCEPT ![r] = "SERIALIZED"]
  /\ UNCHANGED <<days, clock, faults, path, reqStart, doc, lineupReq, lineupGot,
                 lineupData, allChannels, channelMap, day, windows, batches, order,
                 listingData, response, late,
                 fnVars>>

\* lines 191-199 and 31-37
Respond(r) ==
  /\ pc[r] = "SERIALIZED"
  /\ response' = [response EXCEPT ![r] = XmlResponse(xmlString[r], clock - reqStart[r])]
  /\ pc' = [pc EXCEPT ![r] = "RESPONDED"]
  /\ UNCHANGED <<days, clock, faults, path, reqStart, doc, lineupReq, lineupGot,
                 lineupData, allChannels, channelMap, day, windows, batches, order,
                 listingData, xmlString, serialized, late,
                 fnVars>>

\* time passes while a request awaits the upstream
Tick ==
  /\ \E r \in Reqs : pc[r] \in {"LINEUP_WAIT", "DAY_WAIT"}
  /\ clock + 1 \in Clocks
  /\ clock' = clock + 1
  /\ UNCHANGED <<days, faults, reqVars, fnVars>>

Next ==
  \/ \E r \in Reqs : XmltvRequest(r)
  \/ \E r \in Reqs : NotFound(r)
  \/ \E r \in Reqs : LineupFails(r)
  \/ \E r \in Reqs : LineupFetched(r)
  \/ \E r \in Reqs : BeginDay(r)
  \/ \E r \in Reqs : BatchSettles(r)
  \/ \E r \in Reqs : DayFetched(r)
  \/ \E r \in Reqs : DayFails(r)
  \/ \E r \in Reqs : Serialize(r)
  \/ \E r \in Reqs : Respond(r)
  \/ Tick

Spec == Init /\ [][Next]_vars

(***************************************************************************)
(* The pure functions on their own: chunk over every list length up to     *)
(* MaxChunkLen, the window over reference instants around the clock.       *)
(***************************************************************************)
Idle ==
  /\ days = DayClamp
  /\ clock = RefNow
  /\ faults = 0
  /\ path = [r \in Reqs |-> "/"]
  /\ pc = [r \in Reqs |-> "NONE"]
  /\ reqStart = [r \in Reqs |-> 0]
  /\ doc = [r \in Reqs |-> <<>>]
  /\ lineupReq = [r \in Reqs |-> "none"]
  /\ lineupGot = [r \in Reqs |-> NoOutcome]
  /\ lineupData = [r \in Reqs |-> <<>>]
  /\ allChannels = [r \in Reqs |-> <<>>]
  /\ channelMap = [r \in Reqs |-> <<>>]
  /\ day = [r \in Reqs |-> 0]
  /\ windows = [r \in Reqs |-> <<>>]
  /\ batches = [r \in Reqs |-> <<>>]
  /\ order = [r \in Reqs |-> <<>>]
  /\ listingData = [r \in Reqs |-> <<>>]
  /\ xmlString = [r \in Reqs |-> <<>>]
  /\ serialized = [r \in Reqs |-> 0]
  /\ response = [r \in Reqs |-> NoResponse]
  /\ late = [r \in Reqs |-> 0]

ChunkSizes == {BatchSize} \cup (1..MaxChunkSize)

InitChunk ==
  /\ Idle
  /\ fnPc = "chunk"
  /\ fnIn \in {[array |-> [i \in 1..n |-> SID(i)], size |-> k] :
                 n \in 0..MaxChunkLen, k \in ChunkSizes}
  /\ fnOut = <<>>

ApplyChunk ==
  /\ fnPc = "chunk"
  /\ fnOut' = chunk(fnIn.array, fnIn.size)
  /\ fnPc' = "chunked"
  /\ UNCHANGED <<days, clock, faults, reqVars, fnIn>>

SpecChunk == InitChunk /\ [][ApplyChunk]_vars

\* days after the epoch: 1970-01-01, 2023-12-31, 2024-02-28, 2024-03-01
RefDays == {0, 19722, 19781, 19783}

RefTimes == {0, 1, 4 * 60 - 1, 4 * 60, 12 * 60, 24 * 60 - 1}

InitWindow ==
  /\ Idle
  /\ fnPc = "window"
  /\ fnIn \in {[now |-> dd * MinutesPerDay + t, day |-> d] :
                 dd \in RefDays, t \in RefTimes, d \in 0..(DayClamp - 1)}
  /\ fnOut = <<>>

\* lines 105-109 for the day offset, and for the one after it
ApplyWindow ==
  /\ fnPc = "window"
  /\ fnOut' = [this     |-> Window(fnIn.now, fnIn.day),
               next     |-> Window(fnIn.now, fnIn.day + 1),
               startISO |-> toISO(Window(fnIn.now, fnIn.day).start),
               endISO   |-> toISO(Window(fnIn.now, fnIn.day).end)]
  /\ fnPc' = "windowed"
  /\ UNCHANGED <<days, clock, faults, reqVars, fnIn>>

SpecWindow == InitWindow /\ [][ApplyWindow]_vars

(***************************************************************************)
(* The children of a <programme> over Program Entries of every type value  *)
(* and every array of flags drawn from FlagPool.                           *)
(***************************************************************************)
TypeValues == {"M", "N", "S", "m", "X", "MN", ""}

\* the recognised flags and three that look like them
FlagPool == <<"New", "hd", "Stereo", "HDTV", "HD", "EI", "new">>

Reverse(xs) == [i \in 1..Len(xs) |-> xs[Len(xs) + 1 - i]]

\* the arrays of flags: every subset of FlagPool in two orders, and with
\* every flag listed twice
FlagArrays ==
  UNION {LET Member(f) == f \in S
             a == SelectSeq(FlagPool, Member)
         IN  {a, Reverse(a), a \o a} :
         S \in SUBSET {FlagPool[i] : i \in 1..Len(FlagPool)}}

ProgramEntries ==
  {[title |-> t.title, subtitle |-> t.subtitle, description |-> t.description,
    hasType |-> ty.has, type |-> ty.type, hasFlags |-> fl.has, flags |-> fl.flags] :
     t  \in {[title |-> "", subtitle |-> "", description |-> ""],
             [title |-> "News at Ten", subtitle |-> "", description |-> "Headlines"],
             [title |-> "Nova", subtitle |-> "Ep. 1", description |-> ""]},
     ty \in {[has |-> FALSE, type |-> ""]}
             \cup {[has |-> TRUE, type |-> v] : v \in TypeValues},
     fl \in {[has |-> FALSE, flags |-> <<>>]}
             \cup {[has |-> TRUE, flags |-> a] : a \in FlagArrays}}

InitProgramme ==
  /\ Idle
  /\ fnPc = "programme"
  /\ fnIn \in ProgramEntries
  /\ fnOut = <<>>

ApplyProgramme ==
  /\ fnPc = "programme"
  /\ fnOut' = ProgrammeChildren(fnIn)
  /\ fnPc' = "programmed"
  /\ UNCHANGED <<days, clock, faults, reqVars, fnIn>>

SpecProgramme == InitProgramme /\ [][ApplyProgramme]_vars

(***************************************************************************)
(* Two requests in progress at once: the runtime interleaves the stretches *)
(* of code between their awaits.                                           *)
(***************************************************************************)
InitTwo == InitWith(Reqs) /\ days \in {0, 1}

SpecTwo == InitTwo /\ [][Next]_vars

(***************************************************************************)
(* Properties.                                                             *)
(***************************************************************************)
Programmes(d) == {j \in 1..Len(d) : d[j].tag = "programme"}

\* the request joined at least one day and nothing was dispatched since
Joined(r) ==
  /\ Len(batches[r]) >= 1
  /\ \/ pc[r] \in {"DAY_FETCHED", "SERIALIZED"}
     \/ pc[r] = "RESPONDED" /\ response[r].status = 200

RefersBack(d) ==
  \A j \in Programmes(d) :
    \E i \in 1..(j - 1) : d[i].tag = "channel" /\ d[i].id = d[j].channel

\* C1: in the document being built and in every document returned, the
\* channel attribute of each <programme> is the id of a <channel> element
\* that stands earlier in the same document.
C1_ReferentialIntegrity ==
  \A r \in Reqs : RefersBack(doc[r]) /\ RefersBack(response[r].xml)

C1_Witness ==
  \E r \in Reqs : response[r].status = 200 /\ Programmes(response[r].xml) # {}

SlotCount(v) == IF v.type = "array" THEN Len(v.items) ELSE 1

SlotAt(v, j) == IF v.type = "array" THEN v.items[j] ELSE v

RECURSIVE OffsetOf(_, _)
OffsetOf(ps, i) ==
  IF i = 1 THEN 0 ELSE OffsetOf(ps, i - 1) + SlotCount(ps[i - 1].val)

\* grid holds the values of the promises ps one after the other, by position
InSubmissionOrder(ps, grid) ==
  /\ Len(grid) = OffsetOf(ps, Len(ps) + 1)
  /\ \A i \in 1..Len(ps) : \A j \in 1..SlotCount(ps[i].val) :
       grid[OffsetOf(ps, i) + j] = SlotAt(ps[i].val, j)

OnePerId(ps) ==
  \A i \in 1..Len(ps) :
    ps[i].val.type = "array" /\ Len(ps[i].val.items) = Len(ps[i].ids)

\* C2: whatever order the batch requests of a day completed in, the Grid
\* Result is the batch responses one after the other in submission order;
\* when each batch returned one entry per submitted id, slot i is the entry
\* the provider returned for the station of lineup channel i and every
\* program of it stands in the document under that channel's id.
C2_BatchOrderReassembly ==
  \A r \in Reqs : Joined(r) =>
    /\ InSubmissionOrder(batches[r][Len(batches[r])], listingData[r])
    /\ OnePerId(batches[r][Len(batches[r])]) =>
         /\ Len(listingData[r]) = Len(lineupData[r])
         /\ LET w     == windows[r][Len(windows[r])]
                found == {<<doc[r][j].channel, doc[r][j].start, doc[r][j].for>> :
                            j \in Programmes(doc[r])}
            IN  \A i \in 1..Len(lineupData[r]) :
                  /\ listingData[r][i] \in {Schedule(lineupData[r][i].stationId, w),
                                            JsonNull}
                  /\ listingData[r][i].type = "array" =>
                       \A k \in 1..Len(listingData[r][i].items) :
                         <<"ch" \o lineupData[r][i].stationId,
                           listingData[r][i].items[k].startTime,
                           lineupData[r][i].stationId>> \in found

\* a 200 document whose last day had its second batch complete before its first
C2_Witness ==
  \E r \in Reqs :
    /\ response[r].status = 200
    /\ Len(order[r]) >= 2 /\ order[r][1] > order[r][2]
    /\ OnePerId(batches[r][Len(batches[r])])
    /\ Programmes(response[r].xml) # {}

\* response.ok, which the code never reads
Is2xx(st) == st >= 200 /\ st <= 299

\* a batch request that failed: a network error, a body that does not parse,
\* or a status outside 2xx
BatchFailed(p) ==
  \/ p.st = "rejected"
  \/ p.st = "fulfilled" /\ ~Is2xx(p.status)

\* C3: once a batch request of any day failed, the request never reaches
\* SERIALIZED and no 200 document is returned.
C3_AllOrNothing ==
  \A r \in Reqs :
    (\E d \in 1..Len(batches[r]) : \E i \in 1..Len(batches[r][d]) :
       BatchFailed(batches[r][d][i]))
    => pc[r] # "SERIALIZED" /\ response[r].status # 200

\* C5: the Grid Result of every day joined has one slot per lineup channel; a
\* batch response with more or fewer entries than ids submitted aborts the
\* request; no programme stands under a channel other than the one of the
\* station it was returned for.
C5_GridResultAligned ==
  \A r \in Reqs :
    /\ Joined(r) => Len(listingData[r]) = Len(lineupData[r])
    /\ (\E d \in 1..Len(batches[r]) : \E i \in 1..Len(batches[r][d]) :
          batches[r][d][i].shape \in {"short", "long"})
       => pc[r] # "SERIALIZED" /\ response[r].status # 200
    /\ \A j \in Programmes(doc[r]) : doc[r][j].channel = "ch" \o doc[r][j].for

RECURSIVE Concat(_)
Concat(xss) == IF xss = <<>> THEN <<>> ELSE Head(xss) \o Concat(Tail(xss))

\* C4: the batches of chunk, one after the other, are the list; every batch
\* holds between 1 and size items; every batch but the last holds size
\* items; a batch shorter than size exists, and then exactly one, exactly
\* when the length of the list is no multiple of size.
C4_ChunkPartition ==
  fnPc = "chunked" =>
    LET a    == fnIn.array
        size == fnIn.size
        out  == fnOut
        short == {b \in 1..Len(out) : Len(out[b]) < size}
    IN  /\ Concat(out) = a
        /\ \A b \in 1..Len(out) : Len(out[b]) >= 1 /\ Len(out[b]) <= size
        /\ \A b \in 1..(Len(out) - 1) : Len(out[b]) = size
        /\ Cardinality(short) = (IF Len(a) % size # 0 THEN 1 ELSE 0)
        /\ (a = <<>>) => out = <<>>

\* a list of more than two batches of 20 whose last batch is short
C4_Witness ==
  /\ fnPc = "chunked"
  /\ fnIn.size = 20
  /\ Len(fnOut) = 3
  /\ Len(fnOut[3]) < 20

Allowed ==
  {<<"START", "LINEUP_WAIT">>, <<"START", "RESPONDED">>,
   <<"LINEUP_WAIT", "LINEUP_FETCHED">>, <<"LINEUP_WAIT", "RESPONDED">>,
   <<"LINEUP_FETCHED", "DAY_WAIT">>, <<"LINEUP_FETCHED", "SERIALIZED">>,
   <<"DAY_WAIT", "DAY_FETCHED">>, <<"DAY_WAIT", "RESPONDED">>,
   <<"DAY_FETCHED", "DAY_WAIT">>, <<"DAY_FETCHED", "SERIALIZED">>,
   <<"SERIALIZED", "RESPONDED">>}

C6_State(r) ==
  /\ response[r].status \in {0, 200, 404, 500}
  /\ (response[r].status # 0) <=> (pc[r] = "RESPONDED")
  /\ response[r].status \in {404, 500} => response[r].xml = <<>>
  /\ response[r].status = 200 =>
       /\ path[r] = "/xmltv"
       /\ lineupReq[r] = "settled"
       /\ day[r] = Min(days, 8) /\ Len(windows[r]) = Min(days, 8)
       /\ \A d \in 1..Len(batches[r]) : \A i \in 1..Len(batches[r][d]) :
            batches[r][d][i].st = "fulfilled"
       /\ serialized[r] = 1
       /\ response[r].xml = doc[r]
  /\ serialized[r] <= 1
  /\ serialized[r] = 1 <=> (pc[r] = "SERIALIZED" \/ response[r].status = 200)

C6_Step(r) ==
  /\ pc'[r] # pc[r] => <<pc[r], pc'[r]>> \in Allowed
  /\ pc'[r] = pc[r] => response'[r] = response[r]
  /\ (pc[r] = "DAY_WAIT" /\ pc'[r] = "DAY_FETCHED") =>
       /\ \A i \in 1..Len(batches[r][Len(batches[r])]) :
            batches[r][Len(batches[r])][i].st = "fulfilled"
       /\ windows[r][Len(windows[r])].day = day[r]
       /\ day'[r] = day[r] + 1
  /\ (pc[r] = "LINEUP_WAIT" /\ pc'[r] = "LINEUP_FETCHED") => day'[r] = 0
  /\ (pc[r] \in {"LINEUP_WAIT", "DAY_WAIT"} /\ pc'[r] = "RESPONDED") =>
       response'[r].status = 500 /\ response'[r].xml = <<>>
  /\ (pc[r] = "START" /\ pc'[r] = "RESPONDED") => response'[r].status = 404
  /\ pc'[r] = "SERIALIZED" /\ pc[r] # "SERIALIZED" =>
       day[r] = Min(days, 8) /\ xmlString'[r] = doc[r] /\ doc'[r] = doc[r]
  /\ (pc[r] = "SERIALIZED" /\ pc'[r] = "RESPONDED") =>
       response'[r].status = 200 /\ response'[r].xml = xmlString[r]

C7_State(r) ==
  /\ \A d \in 1..(Len(batches[r]) - 1) : \A i \in 1..Len(batches[r][d]) :
       batches[r][d][i].st = "fulfilled"
  /\ \A d \in 1..Len(batches[r]) :
       /\ Len(batches[r][d]) = (Len(allChannels[r]) + 19) \div 20
       /\ Concat([i \in 1..Len(batches[r][d]) |-> batches[r][d][i].ids])
            = allChannels[r]

C7_Step(r) ==
  /\ Len(batches'[r]) # Len(batches[r]) =>
       /\ Len(batches'[r]) = Len(batches[r]) + 1
       /\ \A i \in 1..Len(batches'[r][Len(batches'[r])]) :
            batches'[r][Len(batches'[r])][i].st = "inflight"
       /\ \A d \in 1..Len(batches[r]) : \A i \in 1..Len(batches[r][d]) :
            batches[r][d][i].st = "fulfilled"
  /\ (\E d \in 1..Len(batches[r]) : \E i \in 1..Len(batches[r][d]) :
        batches[r][d][i].st = "rejected")
     => Len(batches'[r]) = Len(batches[r])

LineupFailed(out) ==
  \/ out.kind = "neterr"
  \/ out.kind = "http" /\ (~Is2xx(out.status) \/ out.body.type # "array")

\* C8: once the lineup GET failed, no grid request is issued, the request
\* never reaches SERIALIZED and no 200 document is returned.
C8_LineupFailureFails ==
  \A r \in Reqs :
    (lineupReq[r] = "settled" /\ LineupFailed(lineupGot[r])) =>
      /\ \A d \in 1..Len(batches[r]) : batches[r][d] = <<>>
      /\ pc[r] # "SERIALIZED"
      /\ response[r].status # 200

\* C9: with M the UTC midnight of the reference instant, the window of day
\* offset d starts at M + d days + 4 h and ends at M + (d + 1) days + 3 h 59
\* min; it spans 23 h 59 min; the window of d + 1 starts one minute after
\* its end; for d = 0 and the reference 2024-03-01T00:00Z it runs from
\* 2024-03-01T04:00Z to 2024-03-02T03:59Z.
C9_DayWindowArithmetic ==
  fnPc = "windowed" =>
    LET M == (fnIn.now \div 1440) * 1440
        d == fnIn.day
        w == fnOut.this
    IN  /\ w.start = M + d * 1440 + 4 * 60
        /\ w.end = M + (d + 1) * 1440 + 3 * 60 + 59
        /\ w.end - w.start = 23 * 60 + 59
        /\ fnOut.next.start = w.end + 1
        /\ (fnIn.now = 19783 * 1440 /\ d = 0) =>
             /\ fnOut.startISO = [year |-> 2024, month |-> 3, day |-> 1,
                                  hour |-> 4, minute |-> 0]
             /\ fnOut.endISO = [year |-> 2024, month |-> 3, day |-> 2,
                                hour |-> 3, minute |-> 59]

\* the window of offset 0 for the reference 2024-03-01T00:00Z
C9_Witness ==
  /\ fnPc = "windowed"
  /\ fnIn.now = 19783 * 1440
  /\ fnIn.day = 0
  /\ fnOut.endISO.day = 2

\* C10: the windows of one request are all offsets from one UTC midnight:
\* each starts exactly one day after the one before it.
C10_SingleReferenceInstant ==
  \A r \in Reqs : \A k \in 1..(Len(windows[r]) - 1) :
    /\ windows[r][k + 1].start - (k * 1440) = windows[r][1].start
    /\ windows[r][k + 1].start = windows[r][k].start + 1440

\* the <programme> elements of d whose start lies in the window w
DayPart(d, w) ==
  LET InWindow(e) == e.tag = "programme" /\ e.start >= w.start /\ e.start <= w.end
  IN  SelectSeq(d, InWindow)

\* slot i of the Grid Result is absent, null or not an array
Missing(slots, i) == i > Len(slots) \/ slots[i].type # "array"

RECURSIVE ProgramsUpTo(_, _)
ProgramsUpTo(slots, n) ==
  IF n = 0 THEN 0
  ELSE ProgramsUpTo(slots, n - 1)
         + (IF Missing(slots, n) THEN 0 ELSE Len(slots[n].items))

\* the lineup GET ended in something thrown
LineupThrew(r) ==
  \/ lineupGot[r].kind = "neterr"
  \/ lineupGot[r].kind = "http" /\ lineupGot[r].body.type # "array"

C11_State(r) ==
  /\ Joined(r) =>
       LET w      == windows[r][Len(windows[r])]
           lineup == lineupData[r]
           slots  == listingData[r]
           today  == DayPart(doc[r], w)
       IN  /\ Len(today) = ProgramsUpTo(slots, Len(lineup))
           /\ \A i \in 1..Len(lineup) :
                 ~Missing(slots, i) =>
                   \A k \in 1..Len(slots[i].items) :
                     \E j \in 1..Len(today) :
                       /\ today[j].channel = "ch" \o lineup[i].stationId
                       /\ today[j].start = slots[i].items[k].startTime
                       /\ today[j].for = slots[i].items[k].for
  /\ response[r].status = 500 =>
       \/ LineupThrew(r)
       \/ \E d \in 1..Len(batches[r]) : \E i \in 1..Len(batches[r][d]) :
            batches[r][d][i].st = "rejected"

C11_Step(r) ==
  (pc[r] = "DAY_WAIT" /\ pc'[r] = "DAY_FETCHED") =>
    /\ Len(doc'[r]) >= Len(doc[r])
    /\ SubSeq(doc'[r], 1, Len(doc[r])) = doc[r]

\* C11: a slot of the Grid Result that is absent, null or not an array gives
\* no <programme> for that channel on that day and raises no error: the
\* programmes of the day are exactly those of the slots that are arrays, each
\* under its channel, the days emitted before stay in the document, and a
\* 500 only follows something thrown by a GET.
C11_MissingSlotTolerance ==
  /\ [](\A r \in Reqs : C11_State(r))
  /\ [][\A r \in Reqs : C11_Step(r)]_vars

\* a 200 document over two batches, one of which came with a null entry, and
\* which still holds programmes
C11_Witness ==
  \E r \in Reqs :
    /\ response[r].status = 200
    /\ Len(lineupData[r]) = BatchSize + 1
    /\ \E d \in 1..Len(batches[r]) : \E i \in 1..Len(batches[r][d]) :
         batches[r][d][i].shape = "nullslot"
    /\ \E i \in 1..Len(lineupData[r]) : Missing(listingData[r], i)
    /\ Programmes(response[r].xml) # {}

\* C12: every response, the XMLTV document (200), Not Found (404) and
\* Internal Server Error (500) alike, carries the X-Response-Time header,
\* whose value is the time elapsed since the request was received.
C12_ResponseTimeOnEveryResponse ==
  \A r \in Reqs :
    response[r].status # 0 =>
      /\ "X-Response-Time" \in response[r].headers
      /\ response[r].time >= 0
      /\ response[r].time <= clock - reqStart[r]

\* every Program Entry of the Grid Result, slot after slot
RECURSIVE EntriesOf(_)
EntriesOf(slots) ==
  IF slots = <<>> THEN <<>>
  ELSE (IF Head(slots).type = "array" THEN Head(slots).items ELSE <<>>)
         \o EntriesOf(Tail(slots))

\* the day window of the request that the element e was fetched for
WindowIndex(r, e) ==
  CHOOSE d \in 1..Len(windows[r]) :
    e.start >= windows[r][d].start /\ e.start <= windows[r][d].end

ChannelsFirst(r, d) ==
  LET n == Len(lineupData[r])
  IN  /\ Len(d) >= n
      /\ \A i \in 1..n :
            /\ d[i].tag = "channel"
            /\ d[i].id = "ch" \o lineupData[r][i].stationId
            /\ d[i].names[1] = lineupData[r][i].stationCallSign
      /\ \A j \in (n + 1)..Len(d) : d[j].tag = "programme"

ByDay(r, d) ==
  \A j, k \in Programmes(d) : j < k => WindowIndex(r, d[j]) <= WindowIndex(r, d[k])

\* C13: in every document the <channel> elements, one per lineup entry in
\* lineup order, precede every <programme>; each Program Entry returned
\* upstream for a day window yields exactly one <programme>; the programmes
\* stand by day, then by channel index, then by position in the slot.
C13_DocumentOrder ==
  \A r \in Reqs :
    /\ pc[r] \in {"LINEUP_FETCHED", "DAY_WAIT", "DAY_FETCHED", "SERIALIZED"} =>
         ChannelsFirst(r, doc[r]) /\ ByDay(r, doc[r])
    /\ response[r].status = 200 =>
         ChannelsFirst(r, response[r].xml) /\ ByDay(r, response[r].xml)
    /\ Joined(r) =>
         LET today    == DayPart(doc[r], windows[r][Len(windows[r])])
             returned == EntriesOf(listingData[r])
         IN  /\ Len(today) = Len(returned)
             /\ \A j \in 1..Len(today) :
                   /\ today[j].start = returned[j].startTime
                   /\ today[j].for = returned[j].for

\* everything one request holds
Local(r) ==
  <<path[r], pc[r], reqStart[r], doc[r], lineupReq[r], lineupGot[r], lineupData[r],
    allChannels[r], channelMap[r], day[r], windows[r], batches[r], order[r],
    listingData[r], xmlString[r], serialized[r], response[r], late[r]>>

\* every batch of the request that has settled came back as documented
AllFull(r) ==
  \A d \in 1..Len(batches[r]) : \A i \in 1..Len(batches[r][d]) :
    batches[r][d][i].st = "inflight"
    \/ (batches[r][d][i].st = "fulfilled" /\ batches[r][d][i].shape = "full")

\* the document generateXml builds from the lineup and the day windows of the
\* request alone, up to the days it has joined
AloneDoc(r) ==
  LET lineup == lineupData[r]
  IN  ChannelEles(lineup)
        \o Concat([d \in 1..day[r] |->
                     EmitProgrammes(lineup, BuildChannelMap(lineup),
                                    Entries(StationIds(lineup), windows[r][d]))])

C14_State(r) ==
  /\ pc[r] \in {"NONE", "START", "LINEUP_WAIT"} => doc[r] = <<>>
  /\ (pc[r] \in {"LINEUP_FETCHED", "DAY_WAIT", "DAY_FETCHED", "SERIALIZED"}
       /\ AllFull(r)) => doc[r] = AloneDoc(r)
  /\ (response[r].status = 200 /\ AllFull(r)) => response[r].xml = AloneDoc(r)
  /\ Joined(r) =>
       Len(DayPart(doc[r], windows[r][Len(windows[r])]))
         = ProgramsUpTo(listingData[r], Len(lineupData[r]))

C14_Step ==
  \A r, q \in Reqs : (r # q /\ Local(r)' # Local(r)) => Local(q)' = Local(q)

\* C14: two requests in progress at once, their steps interleaved in any
\* order, each build their own document: a step of one request changes
\* nothing the other holds, and the document of each is the one built from
\* its own lineup, its own day windows and its own batch responses.
C14_RequestIsolation ==
  /\ [](\A r \in Reqs : C14_State(r))
  /\ [][C14_Step]_vars

\* one request returned its document with programmes while the other, with
\* another lineup, was awaiting a day of which a batch had already come in
C14_Witness ==
  \E r, q \in Reqs :
    /\ r # q
    /\ response[r].status = 200 /\ Programmes(response[r].xml) # {}
    /\ pc[q] = "DAY_WAIT"
    /\ Len(lineupData[q]) # Len(lineupData[r])
    /\ \E i \in 1..Len(Current(q)) : Current(q)[i].st = "fulfilled"

\* a <category> that the type rule emits
TypeBased(e) == e.tag = "category" /\ e.text \in {"movie", "news", "sports"}

\* C15: the type rule gives at most one <category>: exactly one with text
\* "movie" for type 'M', "news" for 'N', "sports" for 'S', and none when the
\* type is absent or any other value; the only other <category> a
\* programme can get is the one of the "EI" flag.
C15_TypeCategory ==
  fnPc = "programmed" =>
    LET typed == SelectSeq(fnOut, TypeBased)
        cats  == {i \in 1..Len(fnOut) : fnOut[i].tag = "category"}
        want  == IF ~fnIn.hasType THEN <<>>
                 ELSE IF fnIn.type = "M" THEN <<"movie">>
                 ELSE IF fnIn.type = "N" THEN <<"news">>
                 ELSE IF fnIn.type = "S" THEN <<"sports">>
                 ELSE <<>>
    IN  /\ Len(typed) <= 1
        /\ [i \in 1..Len(typed) |-> typed[i].text] = want
        /\ Cardinality(cats) - Len(typed)
             = Cardinality({i \in cats : fnOut[i].text = "kids"})

\* a program of type 'M' flagged "EI": two categories, one of them type-based
C15_Witness ==
  /\ fnPc = "programmed"
  /\ fnIn.hasType /\ fnIn.type = "M"
  /\ fnIn.hasFlags /\ fnIn.flags = <<"EI">>
  /\ Cardinality({i \in 1..Len(fnOut) : fnOut[i].tag = "category"}) = 2
  /\ Cardinality({i \in 1..Len(fnOut) : TypeBased(fnOut[i])}) = 1

\* the flags of the Program Entry as a set; none when the field is absent
FlagSet(program) ==
  IF program.hasFlags THEN {program.flags[i] : i \in 1..Len(program.flags)} ELSE {}

HowMany(out, tag, child, text) ==
  Cardinality({i \in 1..Len(out) :
                 out[i].tag = tag /\ out[i].child = child /\ out[i].text = text})

\* C16: each recognised flag gives its element exactly when that very
\* string is an item of flags, whatever the other items: "EI" one
\* <category>kids, "HD" one <video><quality>HDTV, "Stereo" one
\* <audio><stereo>, "New" one empty <new>; a Program Entry without flags
\* gets none of them, and nothing else is emitted for flags.
C16_FlagElements ==
  fnPc = "programmed" =>
    LET flags == FlagSet(fnIn)
        One(f) == IF f \in flags THEN 1 ELSE 0
    IN  /\ HowMany(fnOut, "category", "", "kids") = One("EI")
        /\ HowMany(fnOut, "video", "quality", "HDTV") = One("HD")
        /\ HowMany(fnOut, "audio", "stereo", "stereo") = One("Stereo")
        /\ HowMany(fnOut, "new", "", "") = One("New")
        /\ Cardinality({i \in 1..Len(fnOut) : fnOut[i].tag = "video"}) = One("HD")
        /\ Cardinality({i \in 1..Len(fnOut) : fnOut[i].tag = "audio"}) = One("Stereo")
        /\ Cardinality({i \in 1..Len(fnOut) : fnOut[i].tag = "new"}) = One("New")
        /\ \A i \in 1..Len(fnOut) :
              fnOut[i].tag \in {"title", "sub-title", "desc", "category", "video",
                                "audio", "new"}

\* flags ["New", "HD"]: a video element and a new element, no audio element
C16_Witness ==
  /\ fnPc = "programmed"
  /\ fnIn.hasFlags /\ FlagSet(fnIn) = {"HD", "New"}
  /\ HowMany(fnOut, "video", "quality", "HDTV") = 1
  /\ HowMany(fnOut, "new", "", "") = 1
  /\ \A i \in 1..Len(fnOut) : fnOut[i].tag # "audio"

SomeGetThrew(r) ==
  \/ LineupThrew(r)
  \/ \E d \in 1..Len(batches[r]) : \E i \in 1..Len(batches[r][d]) :
       batches[r][d][i].st = "rejected"

C17_State(r) ==
  /\ (lineupReq[r] = "none") <=>
       (pc[r] \in {"NONE", "START"} \/ response[r].status = 404)
  /\ Len(batches[r]) = Len(windows[r])
  /\ \A d \in 1..Len(batches[r]) :
       /\ [i \in 1..Len(batches[r][d]) |-> batches[r][d][i].ids]
            = chunk(allChannels[r], BatchSize)
       /\ \A i \in 1..Len(batches[r][d]) : batches[r][d][i].gets = 1
  /\ SomeGetThrew(r) =>
       /\ pc[r] \in {"DAY_WAIT", "RESPONDED"}
       /\ response[r].status \in {0, 500}
       /\ pc[r] = "DAY_WAIT" => ENABLED DayFails(r)
  /\ response[r].status = 500 =>
       /\ SomeGetThrew(r)
       /\ response[r] = [status |-> 500, text |-> "Internal Server Error",
                         xml |-> <<>>, headers |-> {"Content-Type"}, time |-> 0 - 1]

C17_Step(r) ==
  /\ lineupReq[r] = "inflight" => lineupReq'[r] \in {"inflight", "settled"}
  /\ lineupReq[r] = "settled" =>
       lineupReq'[r] = "settled" /\ lineupGot'[r] = lineupGot[r]
  /\ Len(batches'[r]) >= Len(batches[r])
  /\ \A d \in 1..Len(batches[r]) :
       /\ Len(batches'[r][d]) = Len(batches[r][d])
       /\ \A i \in 1..Len(batches[r][d]) :
            /\ batches'[r][d][i].ids = batches[r][d][i].ids
            /\ batches[r][d][i].st # "inflight" =>
                 /\ batches'[r][d][i].st = batches[r][d][i].st
                 /\ batches'[r][d][i].status = batches[r][d][i].status
  /\ SomeGetThrew(r) => Len(batches'[r]) = Len(batches[r])

C18_State(r) ==
  (lineupReq[r] = "settled" /\ ~LineupThrew(r)) =>
    LET stations == {lineupData[r][i].stationId : i \in 1..Len(lineupData[r])}
    IN  /\ DOMAIN channelMap[r] = stations
        /\ \A s, t \in stations : s # t => channelMap[r][s] # channelMap[r][t]
        /\ \A i \in 1..Len(lineupData[r]) :
              doc[r][i].id = channelMap[r][lineupData[r][i].stationId]

C18_Step(r) ==
  lineupReq[r] = "settled" =>
    channelMap'[r] = channelMap[r] /\ allChannels'[r] = allChannels[r]

\* C18: once the lineup is processed the channel map has one entry for
\* every stationId of the lineup and no other, distinct stationIds have
\* distinct channel ids, each <channel> carries the id of its station, and
\* the map stays as it is while the days are fetched and emitted.
C18_ChannelMap ==
  /\ [](\A r \in Reqs : C18_State(r))
  /\ [][\A r \in Reqs : C18_Step(r)]_vars

\* a day joined for a lineup that lists one of its two stations twice
C18_Witness ==
  \E r \in Reqs :
    /\ pc[r] = "DAY_FETCHED"
    /\ Len(lineupData[r]) = 3
    /\ Cardinality(DOMAIN channelMap[r]) = 2
    /\ Programmes(doc[r]) # {}

C19_State(r) ==
  LET count == IF days < 8 THEN days ELSE 8
  IN  /\ Len(windows[r]) <= count
      /\ \A k \in 1..Len(windows[r]) :
            windows[r][k].day = k - 1 /\ windows[r][k].day <= 7
      /\ response[r].status = 200 =>
            Len(windows[r]) = count /\ Len(batches[r]) = count

C19_Step(r) ==
  /\ Len(windows'[r]) \in {Len(windows[r]), Len(windows[r]) + 1}
  /\ SubSeq(windows'[r], 1, Len(windows[r])) = windows[r]

\* C19: a request that returns its document fetched min(days, 8) day
\* windows, the offsets 0, 1, ... in increasing order and each once; no
\* window of an offset beyond 7 is ever fetched.
C19_DayCountClamp ==
  /\ [](\A r \in Reqs : C19_State(r))
  /\ [][\A r \in Reqs : C19_Step(r)]_vars

\* days configured beyond the clamp: the document is returned after 8 windows
C19_Witness ==
  \E r \in Reqs :
    /\ days > 8
    /\ response[r].status = 200
    /\ Len(windows[r]) = 8
    /\ windows[r][8].day = 7

C20_State(r) ==
  /\ (response[r].status # 0) <=> (pc[r] = "RESPONDED")
  /\ pc[r] \notin {"NONE", "RESPONDED"} => ENABLED Next
  /\ late[r] > 0 => response[r].status = 500 /\ response[r].xml = <<>>

C20_Step(r) ==
  pc[r] = "RESPONDED" =>
    /\ pc'[r] = "RESPONDED"
    /\ response'[r] = response[r]
    /\ doc'[r] = doc[r]
    /\ xmlString'[r] = xmlString[r]
    /\ serialized'[r] = serialized[r]

====
